---- MODULE Spec2Model ----
(***************************************************************************)
(* Course catalog application (app.py): the JSON backing file and the      *)
(* request handlers that read and rewrite it.  Each request is served by   *)
(* its own worker; workers share nothing but the backing file.             *)
(***************************************************************************)
EXTENDS Integers, Sequences, FiniteSets, TLC

\* ------------------------------------------------------------------ bounds
\* Number of workers serving requests at the same time.
NumWorkers == 2
\* Total number of requests started in one behaviour.
MaxRequests == 3

Workers == 1..NumWorkers

\* ------------------------------------------------------------------ values
\* Python's None: what request.form.get(key) yields for a key the submission lacks.
None == "<None>"

\* Python truthiness of an optional string: None and '' are falsy, everything else
\* (a string of blanks included) is truthy.
Truthy(v) == v # None /\ v # ""

\* str.lower() on the strings the model submits as codes.
Lower(s) ==
    CASE s = "CS101" -> "cs101"
      [] s = "Cs101" -> "cs101"
      [] s = "MA1"   -> "ma1"
      [] OTHER       -> s

\* A complete submission; the other submissions are variations of it.
BaseSubmission ==
    [code |-> "CS101", name |-> "Intro", instructor |-> "Dr. A", semester |-> "Fall",
     schedule |-> "MWF", classroom |-> None, prerequisites |-> None,
     grading |-> None, description |-> None]

\* Codes submitted by the requests of Spec and SeqSpec.
Codes == {"CS101", "cs101", "MA1"}

\* Codes looked up by the course_details requests of Spec and SeqSpec.
LookupCodes == {"CS101", "cs101"}

\* Submissions of Spec and SeqSpec: every code, plus a submission that lacks a
\* required field.
Submissions ==
    {[BaseSubmission EXCEPT !.code = c] : c \in Codes}
        \cup {[BaseSubmission EXCEPT !.code = None]}

\* The keys add_course requires (line 146), in the order it tests them.
RequiredKeys == <<"code", "name", "instructor", "semester", "schedule">>

\* The keys add_course reads with '' as the default (lines 126-129).
OptionalKeys == <<"classroom", "prerequisites", "grading", "description">>

\* Submissions of ValSpec: every combination of absent, empty and filled
\* required fields; each required field blank in turn; an optional field filled
\* or empty; and a second code.
ValSubmissions ==
    {[BaseSubmission EXCEPT !.code = c, !.name = n, !.instructor = i,
                            !.semester = s, !.schedule = h] :
        c \in {None, "", "CS101"}, n \in {None, "", "Intro"},
        i \in {None, "", "Dr. A"}, s \in {None, "", "Fall"}, h \in {None, "", "MWF"}}
      \cup {[BaseSubmission EXCEPT ![RequiredKeys[k]] = " "] : k \in DOMAIN RequiredKeys}
      \cup {[BaseSubmission EXCEPT !.classroom = "R1"],
            [BaseSubmission EXCEPT !.code = "MA1", !.grading = ""]}

\* request.form.get(key) / request.form.get(key, default)
FormGetNoDefault(sub, key, default) == sub[key]
FormGet(sub, key, default) == IF sub[key] = None THEN default ELSE sub[key]

\* Lines 121-142: the nine values add_course extracts from the submission.
ExtractForm(sub) ==
    [code          |-> FormGet(sub, "code", None),
     name          |-> FormGet(sub, "name", None),
     instructor    |-> FormGet(sub, "instructor", None),
     semester      |-> FormGet(sub, "semester", None),
     schedule      |-> FormGet(sub, "schedule", ""),
     classroom     |-> FormGet(sub, "classroom", ""),
     prerequisites |-> FormGet(sub, "prerequisites", ""),
     grading       |-> FormGet(sub, "grading", ""),
     description   |-> FormGet(sub, "description", "")]

\* Line 146: the condition under which add_course reports missing fields.
MissingRequiredNoSchedule(f) ==
    \/ ~Truthy(f.code)
    \/ ~Truthy(f.name)
    \/ ~Truthy(f.instructor)
    \/ ~Truthy(f.semester)
MissingCodeOnly(f) == ~Truthy(f.code)
MissingRequired(f) ==
    \/ ~Truthy(f.code)
    \/ ~Truthy(f.name)
    \/ ~Truthy(f.instructor)
    \/ ~Truthy(f.semester)
    \/ ~Truthy(f.schedule)

\* Lines 147-157: the list of missing fields, in the order the code appends them.
MissingFieldsFirstOnly(f) ==
    IF ~Truthy(f.code) THEN <<"course code">>
    ELSE IF ~Truthy(f.name) THEN <<"course name">>
    ELSE IF ~Truthy(f.instructor) THEN <<"instructor">>
    ELSE IF ~Truthy(f.semester) THEN <<"semester">>
    ELSE IF ~Truthy(f.schedule) THEN <<"schedule">>
    ELSE <<>>
MissingFields(f) ==
    (IF ~Truthy(f.code) THEN <<"course code">> ELSE <<>>)
        \o (IF ~Truthy(f.name) THEN <<"course name">> ELSE <<>>)
        \o (IF ~Truthy(f.instructor) THEN <<"instructor">> ELSE <<>>)
        \o (IF ~Truthy(f.semester) THEN <<"semester">> ELSE <<>>)
        \o (IF ~Truthy(f.schedule) THEN <<"schedule">> ELSE <<>>)

\* Lines 175-185: the record add_course hands to save_courses.
NewRecord(f) ==
    [code          |-> f.code,
     name          |-> f.name,
     instructor    |-> f.instructor,
     semester      |-> f.semester,
     schedule      |-> f.schedule,
     classroom     |-> f.classroom,
     prerequisites |-> f.prerequisites,
     grading       |-> f.grading,
     description   |-> f.description]

\* Line 167: any(course['code'].lower() == course_code.lower() for course in courses)
NoDuplicateCheck(cs, code) == FALSE
IsDuplicateCaseSensitive(cs, code) == \E i \in DOMAIN cs : cs[i].code = code
IsDuplicate(cs, code) == \E i \in DOMAIN cs : Lower(cs[i].code) = Lower(code)

FirstMatchIgnoreCase(cs, code) ==
    IF \E i \in DOMAIN cs : Lower(cs[i].code) = Lower(code)
    THEN <<cs[CHOOSE i \in DOMAIN cs :
                /\ Lower(cs[i].code) = Lower(code)
                /\ \A j \in DOMAIN cs : Lower(cs[j].code) = Lower(code) => i <= j]>>
    ELSE <<>>

\* Line 101: next((course for course in courses if course['code'] == code), None),
\* as a sequence: <<the first record with that code>>, or <<>> for None.
FirstMatch(cs, code) ==
    IF \E i \in DOMAIN cs : cs[i].code = code
    THEN <<cs[CHOOSE i \in DOMAIN cs :
                /\ cs[i].code = code
                /\ \A j \in DOMAIN cs : cs[j].code = code => i <= j]>>
    ELSE <<>>

\* ------------------------------------------------------------------ the file
\* Bytes json.dump(courses, file, indent=4) produces for ASCII values: "[]" for
\* an empty list, else 2 bytes of brackets and, per record, 230 bytes of keys,
\* quotes, indentation and separators plus the bytes of its nine values.
RecordOverhead == 230
BracketBytes == 2

ValueBytes(r) ==
    Len(r.code) + Len(r.name) + Len(r.instructor) + Len(r.semester) + Len(r.schedule)
        + Len(r.classroom) + Len(r.prerequisites) + Len(r.grading) + Len(r.description)

RECURSIVE DocSize(_)
DocSize(cs) ==
    IF cs = <<>> THEN BracketBytes
    ELSE RecordOverhead + ValueBytes(cs[Len(cs)]) + DocSize(SubSeq(cs, 1, Len(cs) - 1))

\* The backing file: absent, or present with `size` bytes that json.load either
\* parses into `recs` (ok) or rejects (an empty or overwritten-in-part file).
NoFile == [exists |-> FALSE, ok |-> FALSE, recs |-> <<>>, size |-> 0]
Document(cs) == [exists |-> TRUE, ok |-> TRUE, recs |-> cs, size |-> DocSize(cs)]

\* Line 50: os.path.exists(COURSE_FILE)
FileExistsAlways(f) == TRUE
FileExists(f) == f.exists

\* Line 60: open(COURSE_FILE, 'w') creates the file or truncates it to 0 bytes.
OpenForWrite(f) == [exists |-> TRUE, ok |-> FALSE, recs |-> <<>>, size |-> 0]

\* Line 61 and the close that ends the with block: the buffered document is
\* written at offset 0 of the file as it is then.  Bytes another writer left
\* beyond the end of the document stay, and json.load rejects the result.
WriteDelta(f, cs) == Document(<<cs[Len(cs)]>>)
WriteDocument(f, cs) ==
    IF DocSize(cs) >= f.size
    THEN Document(cs)
    ELSE [exists |-> TRUE, ok |-> FALSE, recs |-> <<>>, size |-> f.size]

\* The collection a reader would get from the file (nothing from one it rejects).
Collection(f) == IF f.exists /\ f.ok THEN f.recs ELSE <<>>

IsPrefix(s, t) == Len(s) <= Len(t) /\ SubSeq(t, 1, Len(s)) = s

\* ------------------------------------------------------------------ state
VARIABLES
    file,       \* course_catalog.json
    threaded,   \* whether the server hands requests to concurrent workers
    pc,         \* where each worker is in its handler
    kind,       \* the request a worker is serving
    site,       \* which call of load_courses the worker is in
    reqform,    \* add_course: request.form, the submission
    form,       \* add_course: form_data
    arg,        \* course_details: the code in the URL
    courses,    \* the local `courses` (what load_courses returned, line 59's append)
    result,     \* the outcome of the request
    missing,    \* add_course: missing_fields
    course,     \* course_details: <<the record found>>, or <<>> for None
    snap,       \* history: lastGood when the add_course POST started
    acked,      \* history: records whose add_course reported success
    seenAcked,  \* history: acked when the catalog listing started
    lastGood,   \* history: the collection last written to the file in full
    nreq        \* history: requests started

history == <<snap, acked, seenAcked, lastGood, nreq>>
vars == <<file, threaded, pc, kind, site, reqform, form, arg, courses, result, missing, course,
          snap, acked, seenAcked, lastGood, nreq>>

\* What a worker holds while it serves no add_course POST.
NoSubmission == [BaseSubmission EXCEPT !.code = None]
NoForm == ExtractForm(NoSubmission)

\* Collections the file may hold when the application starts.
InitCollections == {<<NewRecord(ExtractForm(BaseSubmission))>>}

Start ==
    /\ file \in {NoFile} \cup {Document(cs) : cs \in InitCollections}
    /\ pc = [p \in Workers |-> "idle"]
    /\ kind = [p \in Workers |-> "none"]
    /\ site = [p \in Workers |-> "none"]
    /\ reqform = [p \in Workers |-> NoSubmission]
    /\ form = [p \in Workers |-> NoForm]
    /\ arg = [p \in Workers |-> None]
    /\ courses = [p \in Workers |-> <<>>]
    /\ result = [p \in Workers |-> "none"]
    /\ missing = [p \in Workers |-> <<>>]
    /\ course = [p \in Workers |-> <<>>]
    /\ snap = [p \in Workers |-> <<>>]
    /\ acked = {}
    /\ seenAcked = [p \in Workers |-> {}]
    /\ lastGood = Collection(file)
    /\ nreq = 0

\* app.run serves each request in a thread of its own.
Init == Start /\ threaded = TRUE

\* A server that takes the next request only when the last one is answered.
SeqInit == Start /\ threaded = FALSE

\* A backing file that holds something json.load rejects (a few bytes of text
\* that is not JSON).
CorruptFile == [exists |-> TRUE, ok |-> FALSE, recs |-> <<>>, size |-> 7]

\* The one-at-a-time server started on no file, a good file or a corrupt one.
CorruptInit ==
    /\ file \in {NoFile, CorruptFile} \cup {Document(cs) : cs \in InitCollections}
    /\ pc = [p \in Workers |-> "idle"]
    /\ kind = [p \in Workers |-> "none"]
    /\ site = [p \in Workers |-> "none"]
    /\ reqform = [p \in Workers |-> NoSubmission]
    /\ form = [p \in Workers |-> NoForm]
    /\ arg = [p \in Workers |-> None]
    /\ courses = [p \in Workers |-> <<>>]
    /\ result = [p \in Workers |-> "none"]
    /\ missing = [p \in Workers |-> <<>>]
    /\ course = [p \in Workers |-> <<>>]
    /\ snap = [p \in Workers |-> <<>>]
    /\ acked = {}
    /\ seenAcked = [p \in Workers |-> {}]
    /\ lastGood = Collection(file)
    /\ nreq = 0
    /\ threaded = FALSE

\* A request arrives at an idle worker.
Begin(p, k) ==
    /\ pc[p] = "idle"
    /\ threaded \/ \A q \in Workers : pc[q] = "idle"
    /\ nreq < MaxRequests
    /\ nreq' = nreq + 1
    /\ kind' = [kind EXCEPT ![p] = k]
    /\ snap' = [snap EXCEPT ![p] = IF k = "add_post" THEN lastGood ELSE <<>>]
    /\ seenAcked' = [seenAcked EXCEPT ![p] = IF k = "catalog" THEN acked ELSE {}]
    /\ UNCHANGED <<file, threaded, acked, lastGood>>

\* ------------------------------------------------------------------ handlers
\* Lines 74-87: course_catalog up to its call of load_courses.
course_catalog(p) ==
    /\ Begin(p, "catalog")
    /\ pc' = [pc EXCEPT ![p] = "load_exists"]
    /\ site' = [site EXCEPT ![p] = "catalog"]
    /\ UNCHANGED <<reqform, form, arg, courses, result, missing, course>>

\* Lines 93-100: course_details up to its call of load_courses.
course_details(p, code) ==
    /\ Begin(p, "details")
    /\ pc' = [pc EXCEPT ![p] = "load_exists"]
    /\ site' = [site EXCEPT ![p] = "details"]
    /\ arg' = [arg EXCEPT ![p] = code]
    /\ UNCHANGED <<reqform, form, courses, result, missing, course>>

\* Lines 111-119, 191-192: add_course for a GET renders the empty form.
add_course_get(p) ==
    /\ Begin(p, "add_get")
    /\ pc' = [pc EXCEPT ![p] = "done"]
    /\ result' = [result EXCEPT ![p] = "form"]
    /\ UNCHANGED <<site, reqform, form, arg, courses, missing, course>>

\* Lines 111-165: add_course for a POST: extract the form, validate the required
\* fields, and either report the missing ones or go on to load the collection.
add_course_post(p, sub) ==
    /\ Begin(p, "add_post")
    /\ reqform' = [reqform EXCEPT ![p] = sub]
    /\ form' = [form EXCEPT ![p] = ExtractForm(sub)]
    /\ IF MissingRequired(ExtractForm(sub))
       THEN /\ missing' = [missing EXCEPT ![p] = MissingFields(ExtractForm(sub))]
            /\ result' = [result EXCEPT ![p] = "invalid"]
            /\ pc' = [pc EXCEPT ![p] = "done"]
            /\ UNCHANGED site
       ELSE /\ pc' = [pc EXCEPT ![p] = "load_exists"]
            /\ site' = [site EXCEPT ![p] = "add"]
            /\ UNCHANGED <<missing, result>>
    /\ UNCHANGED <<arg, courses, course>>

\* What the caller of load_courses does with the list it returns:
\*   course_catalog (87-89) renders it;
\*   course_details (100-106) looks the code up and renders or redirects;
\*   add_course (165-175) checks for a duplicate and rejects or calls save_courses;
\*   save_courses (58) keeps it for the append and the write.
Returned(p, loaded) ==
    /\ courses' = [courses EXCEPT ![p] = loaded]
    /\ CASE site[p] = "catalog" ->
              /\ pc' = [pc EXCEPT ![p] = "done"]
              /\ result' = [result EXCEPT ![p] = "catalog"]
              /\ UNCHANGED <<site, course>>
         [] site[p] = "details" ->
              /\ pc' = [pc EXCEPT ![p] = "done"]
              /\ course' = [course EXCEPT ![p] = FirstMatch(loaded, arg[p])]
              /\ result' = [result EXCEPT ![p] =
                    IF FirstMatch(loaded, arg[p]) = <<>> THEN "notfound" ELSE "details"]
              /\ UNCHANGED site
         [] site[p] = "add" ->
              IF IsDuplicate(loaded, form[p].code)
              THEN /\ pc' = [pc EXCEPT ![p] = "done"]
                   /\ result' = [result EXCEPT ![p] = "duplicate"]
                   /\ UNCHANGED <<site, course>>
              ELSE /\ pc' = [pc EXCEPT ![p] = "load_exists"]
                   /\ site' = [site EXCEPT ![p] = "save"]
                   /\ UNCHANGED <<result, course>>
         [] site[p] = "save" ->
              /\ pc' = [pc EXCEPT ![p] = "open"]
              /\ UNCHANGED <<site, result, course>>

\* json.load raised: the exception leaves the handler and the request fails.
RaisedSwallowed(p) == Returned(p, <<>>)
RaisedRetry(p) == UNCHANGED <<pc, result, site, courses, course>>
Raised(p) ==
    /\ pc' = [pc EXCEPT ![p] = "done"]
    /\ result' = [result EXCEPT ![p] = "error"]
    /\ UNCHANGED <<site, courses, course>>

\* Lines 50-51: load_courses tests for the file and returns [] if there is none.
load_courses_creates(p) ==
    /\ pc[p] = "load_exists"
    /\ IF FileExists(file)
       THEN /\ pc' = [pc EXCEPT ![p] = "load_read"]
            /\ UNCHANGED <<file, site, courses, result, course>>
       ELSE /\ Returned(p, <<>>)
            /\ file' = Document(<<>>)
    /\ UNCHANGED <<threaded, kind, reqform, form, arg, missing, history>>
load_courses_exists(p) ==
    /\ pc[p] = "load_exists"
    /\ IF FileExists(file)
       THEN /\ pc' = [pc EXCEPT ![p] = "load_read"]
            /\ UNCHANGED <<site, courses, result, course>>
       ELSE Returned(p, <<>>)
    /\ UNCHANGED <<file, threaded, kind, reqform, form, arg, missing, history>>

\* Lines 52-53: load_courses opens the file and parses it.
load_courses_read(p) ==
    /\ pc[p] = "load_read"
    /\ IF file.ok THEN Returned(p, file.recs) ELSE Raised(p)
    /\ UNCHANGED <<file, threaded, kind, reqform, form, arg, missing, history>>

\* Lines 59-60: save_courses appends the record to the list it loaded and opens
\* the file for writing.
save_courses_open(p) ==
    /\ pc[p] = "open"
    /\ courses' = [courses EXCEPT ![p] = Append(courses[p], NewRecord(form[p]))]
    /\ file' = OpenForWrite(file)
    /\ pc' = [pc EXCEPT ![p] = "dump"]
    /\ UNCHANGED <<threaded, kind, site, reqform, form, arg, result, missing, course, history>>

\* Line 61 and lines 187-189: save_courses writes the list and closes the file;
\* add_course reports success.
save_courses_dump(p) ==
    /\ pc[p] = "dump"
    /\ file' = WriteDocument(file, courses[p])
    /\ pc' = [pc EXCEPT ![p] = "done"]
    /\ result' = [result EXCEPT ![p] = "success"]
    /\ acked' = acked \cup {NewRecord(form[p])}
    /\ lastGood' = IF file'.ok THEN file'.recs ELSE lastGood
    /\ UNCHANGED <<threaded, kind, site, reqform, form, arg, courses, missing, course,
                   snap, seenAcked, nreq>>

\* The response has been sent; the worker is free for the next request.
respond(p) ==
    /\ pc[p] = "done"
    /\ pc' = [pc EXCEPT ![p] = "idle"]
    /\ kind' = [kind EXCEPT ![p] = "none"]
    /\ site' = [site EXCEPT ![p] = "none"]
    /\ reqform' = [reqform EXCEPT ![p] = NoSubmission]
    /\ form' = [form EXCEPT ![p] = NoForm]
    /\ arg' = [arg EXCEPT ![p] = None]
    /\ courses' = [courses EXCEPT ![p] = <<>>]
    /\ result' = [result EXCEPT ![p] = "none"]
    /\ missing' = [missing EXCEPT ![p] = <<>>]
    /\ course' = [course EXCEPT ![p] = <<>>]
    /\ snap' = [snap EXCEPT ![p] = <<>>]
    /\ seenAcked' = [seenAcked EXCEPT ![p] = {}]
    /\ UNCHANGED <<file, threaded, acked, lastGood, nreq>>

\* ------------------------------------------------------------------ specifications
Step(p) ==
    \/ course_catalog(p)
    \/ \E code \in LookupCodes : course_details(p, code)
    \/ add_course_get(p)
    \/ \E sub \in Submissions : add_course_post(p, sub)
    \/ load_courses_exists(p)
    \/ load_courses_read(p)
    \/ save_courses_open(p)
    \/ save_courses_dump(p)
    \/ respond(p)

\* Requests served concurrently: any worker may take its next step.
Next == \E p \in Workers : Step(p)

Spec == Init /\ [][Next]_vars

\* The steps of a request that is being served.
Proceed(p) ==
    \/ load_courses_exists(p)
    \/ load_courses_read(p)
    \/ save_courses_open(p)
    \/ save_courses_dump(p)

\* Submissions of FairSpec: two new codes whose documents differ in length.
FairSubmissions == {[BaseSubmission EXCEPT !.code = c] : c \in {"CS101", "MA1"}}

FairStep(p) ==
    \/ course_catalog(p)
    \/ course_details(p, "CS101")
    \/ \E sub \in FairSubmissions : add_course_post(p, sub)
    \/ Proceed(p)
    \/ respond(p)

FairNext == \E p \in Workers : FairStep(p)

\* Requests served concurrently from a server started without a file, every
\* worker's thread scheduled again and again: a handler that can take its next
\* step eventually takes it.
FairInit == Init /\ file = NoFile

FairSpec == FairInit /\ [][FairNext]_vars /\ \A p \in Workers : WF_vars(Proceed(p))

\* Requests served one at a time.
SeqSpec == SeqInit /\ [][Next]_vars

\* Requests served one at a time, the file possibly corrupt from the start.
CorruptSpec == CorruptInit /\ [][Next]_vars

\* Requests served one at a time, the add_course POSTs carrying the submissions
\* of ValSubmissions.
ValStep(p) ==
    \/ course_catalog(p)
    \/ \E code \in LookupCodes : course_details(p, code)
    \/ add_course_get(p)
    \/ \E sub \in ValSubmissions : add_course_post(p, sub)
    \/ load_courses_exists(p)
    \/ load_courses_read(p)
    \/ save_courses_open(p)
    \/ save_courses_dump(p)
    \/ respond(p)

ValNext == \E p \in Workers : ValStep(p)

ValSpec == SeqInit /\ [][ValNext]_vars

\* ------------------------------------------------------------------ properties
Range(s) == {s[i] : i \in DOMAIN s}

\* Two codes are the same code when they are equal ignoring case.
SameCode(a, b) == Lower(a) = Lower(b)

HasCode(cs, code) == \E i \in DOMAIN cs : SameCode(cs[i].code, code)

CountCode(cs, code) == Cardinality({i \in DOMAIN cs : SameCode(cs[i].code, code)})

\* Worker p has finished an add_course POST that passed validation.
AddDone(p) == pc[p] = "done" /\ kind[p] = "add_post" /\ ~MissingRequired(form[p])

\* Worker p took a step.
Stepped(p) ==
    <<pc[p], site[p], courses[p], result[p]>>' # <<pc[p], site[p], courses[p], result[p]>>

\* Worker p changes the backing file in this step (line 60 or line 61).
Writes(p) == pc[p] \in {"open", "dump"} /\ pc'[p] # pc[p]

\* C1: with requests served one at a time, starting from no file or from a file
\* of pairwise distinct codes, no two records of the persisted collection have
\* codes that are equal ignoring case.
C1_UniqueCodes ==
    \A i, j \in DOMAIN Collection(file) :
        i # j => ~SameCode(Collection(file)[i].code, Collection(file)[j].code)

\* A duplicate differing in case only was rejected and the file holds two records.
C1_Witness ==
    /\ Len(Collection(file)) = 2
    /\ \E p \in Workers :
          /\ AddDone(p)
          /\ result[p] = "duplicate"
          /\ \E i \in DOMAIN file.recs :
                file.recs[i].code # form[p].code /\ SameCode(file.recs[i].code, form[p].code)

\* C2: when two add_course POSTs with the same new code (equal ignoring case,
\* required fields present) have both finished, exactly one of them reported
\* success, the other was rejected as a duplicate, and the persisted collection
\* holds exactly one record with that code.  (Stated for the runs in which
\* neither request failed reading the file, so that what refutes it is the
\* outcome of the duplicate check itself.)
C2_ExactlyOneSucceeds ==
    \A p, q \in Workers :
        (/\ p # q
         /\ AddDone(p) /\ AddDone(q)
         /\ SameCode(form[p].code, form[q].code)
         /\ ~HasCode(snap[p], form[p].code)
         /\ ~HasCode(snap[q], form[q].code)
         /\ result[p] # "error" /\ result[q] # "error")
        => /\ {result[p], result[q]} = {"success", "duplicate"}
           /\ CountCode(Collection(file), form[p].code) = 1

\* C3: when two add_course POSTs with distinct codes have both finished and no
\* write is under way, the record of each one that reported success is in the
\* persisted collection.
C3_NoLostUpdate ==
    \A p, q \in Workers :
        (/\ p # q
         /\ AddDone(p) /\ AddDone(q)
         /\ ~SameCode(form[p].code, form[q].code)
         /\ result[p] = "success"
         /\ \A w \in Workers : pc[w] # "dump")
        => NewRecord(form[p]) \in Range(Collection(file))

\* Worker p is between its load for the duplicate check (line 165) and the end
\* of its write (line 61).
InSection(p) == site[p] = "save" /\ pc[p] \in {"load_exists", "load_read", "open", "dump"}

\* C4: while one add_course request is between its load for the duplicate check
\* and the end of its write, no other request writes to the backing file.
C4_CriticalSection ==
    [][\A p, q \in Workers : (p # q /\ InSection(p)) => ~Writes(q)]_vars

\* C5: with requests served one at a time, an add_course POST whose code equals
\* a stored code ignoring case is rejected as a duplicate and leaves the
\* persisted collection as it was before the request.
C5_DuplicateRejected ==
    \A p \in Workers :
        (AddDone(p) /\ HasCode(snap[p], form[p].code))
        => /\ result[p] = "duplicate"
           /\ file.exists /\ file.ok
           /\ file.recs = snap[p]

\* 'cs101' was submitted while 'CS101' is stored, and the request has finished.
C5_Witness ==
    \E p \in Workers :
        /\ AddDone(p)
        /\ form[p].code = "cs101"
        /\ \E i \in DOMAIN snap[p] : snap[p][i].code = "CS101"
        /\ result[p] = "duplicate"

\* C6: with requests served one at a time, an add_course POST that passes
\* validation and whose code is not stored (ignoring case) reports success and
\* turns the persisted collection into the previous one with the new record at
\* its end.
C6_AppendAtEnd ==
    \A p \in Workers :
        (AddDone(p) /\ ~HasCode(snap[p], form[p].code))
        => /\ result[p] = "success"
           /\ file.exists /\ file.ok
           /\ file.recs = Append(snap[p], NewRecord(form[p]))

\* A second record was appended behind a first one with another code.
C6_Witness ==
    \E p \in Workers :
        /\ AddDone(p)
        /\ result[p] = "success"
        /\ Len(snap[p]) = 1
        /\ Len(file.recs) = 2
        /\ file.recs[1] = snap[p][1]
        /\ file.recs[2].code = form[p].code

\* C7: a catalog listing that started after an add_course POST reported success
\* returns a collection that includes the record that request appended.
C7_ReadAfterWrite ==
    \A p \in Workers :
        (pc[p] = "done" /\ kind[p] = "catalog" /\ result[p] = "catalog")
        => seenAcked[p] \subseteq Range(courses[p])

\* C8: every completed write leaves a collection of which the collection before
\* the write is a prefix.
C8_AppendOnly ==
    [][(file' # file /\ file'.ok) => IsPrefix(lastGood, file'.recs)]_vars

\* C9: a catalog listing or course lookup never fails on a partially written
\* file: its read sees a complete collection.
C9_NoPartialRead ==
    \A p \in Workers :
        (pc[p] = "done" /\ kind[p] \in {"catalog", "details"}) => result[p] # "error"

\* C10: load_courses on a missing backing file returns an empty list, raises
\* nothing, and neither creates nor modifies the file.
C10_MissingFileLoad ==
    [][\A p \in Workers :
          (pc[p] = "load_exists" /\ ~file.exists /\ Stepped(p))
          => /\ file' = file
             /\ pc'[p] # "load_read"
             /\ result'[p] # "error"
             /\ courses'[p] = <<>>]_vars

\* A catalog listing was served from a missing file: empty, and still no file.
C10_Witness ==
    \E p \in Workers :
        /\ pc[p] = "done"
        /\ kind[p] = "catalog"
        /\ result[p] = "catalog"
        /\ courses[p] = <<>>
        /\ ~file.exists

\* A value a submission can have for a key: absent (None) or empty.
AbsentOrEmpty(v) == v = None \/ v = ""

\* The submission lacks at least one required field.
LacksRequired(sub) == \E k \in DOMAIN RequiredKeys : AbsentOrEmpty(sub[RequiredKeys[k]])

\* What the message calls each required field.
FieldName(k) ==
    CASE k = "code" -> "course code"
      [] k = "name" -> "course name"
      [] OTHER      -> k

\* Worker p has finished an add_course POST.
PostDone(p) == pc[p] = "done" /\ kind[p] = "add_post"

\* C11: validation of a submission fails exactly when a required field is absent
\* or empty, and the list of missing fields then names every such field once,
\* in the order code, name, instructor, semester, schedule; a submission missing
\* only instructor and schedule yields exactly <<"instructor", "schedule">>.
C11_MissingList ==
    \A p \in Workers :
        PostDone(p) =>
            /\ (result[p] = "invalid") <=> LacksRequired(reqform[p])
            /\ result[p] = "invalid" =>
                  missing[p] = SelectSeq([k \in DOMAIN RequiredKeys |->
                                            IF AbsentOrEmpty(reqform[p][RequiredKeys[k]])
                                            THEN FieldName(RequiredKeys[k]) ELSE ""],
                                         LAMBDA n : n # "")
            /\ ({k \in DOMAIN RequiredKeys : AbsentOrEmpty(reqform[p][RequiredKeys[k]])} = {3, 5})
                  => missing[p] = <<"instructor", "schedule">>

\* A submission without instructor and schedule, the rest filled, was refused.
C11_Witness ==
    \E p \in Workers :
        /\ PostDone(p)
        /\ reqform[p].instructor = None /\ reqform[p].schedule = None
        /\ Truthy(reqform[p].code) /\ Truthy(reqform[p].name) /\ Truthy(reqform[p].semester)
        /\ result[p] = "invalid"
        /\ missing[p] = <<"instructor", "schedule">>

\* str.strip() on the values the model submits.
Trim(v) == IF v = " " THEN "" ELSE v

\* The submission has a required field made of blanks only.
HasBlankRequired(sub) ==
    \E k \in DOMAIN RequiredKeys :
        sub[RequiredKeys[k]] # None /\ sub[RequiredKeys[k]] # "" /\ Trim(sub[RequiredKeys[k]]) = ""

\* C12: a submission with a required field made of blanks only is rejected by
\* validation, and no record with such a field is in the store.
C12_BlankRejected ==
    /\ \A p \in Workers :
          (PostDone(p) /\ HasBlankRequired(reqform[p])) => result[p] = "invalid"
    /\ \A i \in DOMAIN Collection(file) : ~HasBlankRequired(Collection(file)[i])

\* C13: course_details yields the stored record whose code is exactly the code
\* asked for, and the not-found outcome when no stored code is exactly equal to
\* it, a code that differs in letter case only included; an append with a code
\* that differs in case only from a stored one is rejected as a duplicate.
C13_ExactLookup ==
    /\ \A p \in Workers :
          (pc[p] = "done" /\ kind[p] = "details") =>
              IF \E i \in DOMAIN Collection(file) : Collection(file)[i].code = arg[p]
              THEN /\ result[p] = "details"
                   /\ Len(course[p]) = 1
                   /\ course[p][1].code = arg[p]
                   /\ course[p][1] \in Range(Collection(file))
              ELSE result[p] = "notfound" /\ course[p] = <<>>
    /\ \A p \in Workers :
          (AddDone(p) /\ HasCode(snap[p], form[p].code)) => result[p] = "duplicate"

\* 'cs101' was looked up while 'CS101' is stored, and was not found.
C13_Witness ==
    \E p \in Workers :
        /\ pc[p] = "done" /\ kind[p] = "details"
        /\ arg[p] = "cs101"
        /\ \E i \in DOMAIN Collection(file) : Collection(file)[i].code = "CS101"
        /\ result[p] = "notfound"

\* C14: when the backing file exists but cannot be parsed, load_courses fails
\* and the failure reaches the caller (no empty list takes its place); a request
\* that failed this way writes nothing and leaves the file as it was.
C14_CorruptPropagates ==
    [][\A p \in Workers :
          /\ (pc[p] = "load_read" /\ ~file.ok /\ Stepped(p))
                => (result'[p] = "error" /\ pc'[p] = "done" /\ file' = file)
          /\ result[p] = "error" => (~Writes(p) /\ (Stepped(p) => file' = file))]_vars

\* An add_course POST failed on the corrupt file, which is as it was.
C14_Witness ==
    \E p \in Workers :
        /\ AddDone(p)
        /\ result[p] = "error"
        /\ file = CorruptFile

AllKeys == Range(RequiredKeys) \cup Range(OptionalKeys)

\* The records add_course has written or is writing: those in the file, those
\* reported as saved, and those in a list on its way to the file.
Written ==
    Range(Collection(file)) \cup acked
        \cup UNION {Range(courses[p]) : p \in {w \in Workers : pc[w] = "dump"}}

\* C15: every record add_course writes has the nine keys, each with a string
\* value; an optional field the submission lacks is stored as the empty string.
C15_NineStrings ==
    /\ \A r \in Written : DOMAIN r = AllKeys /\ \A k \in AllKeys : r[k] # None
    /\ \A p \in Workers :
          (AddDone(p) /\ result[p] = "success") =>
              \A k \in Range(OptionalKeys) :
                  reqform[p][k] = None => file.recs[Len(file.recs)][k] = ""

\* A submission without classroom was saved: the last record of the file is its
\* record, with '' as the classroom.
C15_Witness ==
    \E p \in Workers :
        /\ AddDone(p) /\ result[p] = "success"
        /\ reqform[p].classroom = None
        /\ file.recs[Len(file.recs)].classroom = ""
        /\ file.recs[Len(file.recs)].code = reqform[p].code

\* C16: every record add_course has persisted has a non-empty code, name,
\* instructor, semester and schedule.
C16_RequiredNonEmpty ==
    \A r \in Written : \A k \in Range(RequiredKeys) : ~AbsentOrEmpty(r[k])

\* A record reported as saved is in the file.
C16_Witness ==
    \E p \in Workers :
        /\ AddDone(p) /\ result[p] = "success"
        /\ NewRecord(form[p]) \in Range(Collection(file))
        /\ NewRecord(form[p]) \in acked

\* C17: an add_course POST that fails validation is answered in the step that
\* receives it, before any read or write of the file, which stays as it is; a
\* submission that lacks a required field is reported as invalid even when its
\* code is the code of a stored record.
C17_ValidationFirst ==
    [][\A p \in Workers :
          /\ (result'[p] = "invalid" /\ result[p] # "invalid")
                => (pc[p] = "idle" /\ pc'[p] = "done" /\ file' = file)
          /\ (PostDone(p) /\ LacksRequired(reqform[p]))
                => (result[p] = "invalid" /\ courses[p] = <<>>)]_vars

\* A submission with a stored code and no name was reported as invalid.
C17_Witness ==
    \E p \in Workers :
        /\ PostDone(p)
        /\ Truthy(reqform[p].code)
        /\ HasCode(Collection(file), reqform[p].code)
        /\ reqform[p].name = None
        /\ result[p] = "invalid"

\* The requests that only read: the catalog listing, the course lookup and the
\* GET of the add_course form.
ReadOnlyKinds == {"catalog", "details", "add_get"}

\* C18: no step of a catalog listing, a course lookup or a GET of add_course
\* changes the backing file, whether it exists or not and whether the lookup
\* finds the course or not.
C18_ReadOnly ==
    [][\A p \in Workers :
          (Stepped(p) /\ (kind[p] \in ReadOnlyKinds \/ kind'[p] \in ReadOnlyKinds))
              => file' = file]_vars

\* A lookup that found nothing has been served from a missing file, which is
\* still missing.
C18_Witness ==
    \E p \in Workers :
        /\ pc[p] = "done" /\ kind[p] = "details"
        /\ result[p] = "notfound"
        /\ file = NoFile

\* C19: under fair scheduling every request eventually completes, with a result
\* or an error, whatever the other workers do: as a behaviour starts MaxRequests
\* requests at most, from some point on no worker is inside a handler any more.
C19_Completes ==
    <>[](\A p \in Workers : pc[p] \in {"idle", "done"})

\* Two requests that overlapped have both completed, one with a result and one
\* with an error.
C19_Witness ==
    \E p, q \in Workers :
        /\ p # q
        /\ pc[p] = "done" /\ result[p] = "success"
        /\ pc[q] = "done" /\ result[q] = "error"

====
